---------------------------- MODULE Spec2Model ----------------------------
(***************************************************************************)
(* Model of the Manthan Creator Suite backend.                             *)
(*                                                                         *)
(*   Spec          backend/app.py: bearer-token gate, projects, pitch,     *)
(*                 stage generate / choose, debug routes                   *)
(*   SpecStages    backend/app_stages.py: generate_stage / choose_stage    *)
(*   SpecPitch021  manthan_v0_2_1/backend/app/main.py: generate_pitch      *)
(*                 with quality_gate and autosave                          *)
(*                                                                         *)
(* Python str values are sequences of one-character strings, so that       *)
(* strip(), lower(), startswith(), split() are computed, not assumed.      *)
(* Fixed template text is kept as multi-character atoms inside such a      *)
(* sequence.  None is NoneVal for an Optional[str] held as a sequence and  *)
(* NoneAtom for one held as an atom (engine, language).                    *)
(***************************************************************************)
EXTENDS Integers, Sequences, FiniteSets, TLC

VARIABLES
    projects,      \* app.py: Firestore collection "projects": id -> document
    stage_field,   \* app_stages.py: the "stage" field of a project document
    stages,        \* app.py: subcollection documents: <<project id, stage>> -> document
    uuid_ctr,      \* number of uuid4 values handed out so far
    openai_ready,  \* app.py: _OPENAI_READY (the SDK import succeeded)
    api_key,       \* app.py: OPENAI_API_KEY is set in the environment
    env021,        \* main.py: USE_MODEL, OPENAI_API_KEY, AUTOSAVE
    pitch_packs,   \* main.py: Firestore collection "pitch_packs"
    last           \* the last request served, with its response and its I/O

vars == <<projects, stage_field, stages, uuid_ctr, openai_ready, api_key,
          env021, pitch_packs, last>>

---------------------------------------------------------------------------
(* Bounds of the model.                                                    *)

MaxProjects == 2
MaxUuid == 2
MaxPacks == 1

---------------------------------------------------------------------------
(* Python str operations.                                                  *)

NoneVal == <<"<None>">>

NoneAtom == "<None>"

IsNone(v) == v = NoneVal

\* bool(v) of an Optional[str]
Truthy(v) == ~IsNone(v) /\ v # <<>>

\* v or d
OrElse(v, d) == IF Truthy(v) THEN v ELSE d

IsSpace(c) == c \in {" ", "\n", "\t"}

LowerChar(c) ==
    CASE c = "A" -> "a" [] c = "B" -> "b" [] c = "C" -> "c" [] c = "D" -> "d"
      [] c = "E" -> "e" [] c = "F" -> "f" [] c = "G" -> "g" [] c = "H" -> "h"
      [] c = "I" -> "i" [] c = "J" -> "j" [] c = "K" -> "k" [] c = "L" -> "l"
      [] c = "M" -> "m" [] c = "N" -> "n" [] c = "O" -> "o" [] c = "P" -> "p"
      [] c = "Q" -> "q" [] c = "R" -> "r" [] c = "S" -> "s" [] c = "T" -> "t"
      [] c = "U" -> "u" [] c = "V" -> "v" [] c = "W" -> "w" [] c = "X" -> "x"
      [] c = "Y" -> "y" [] c = "Z" -> "z"
      [] OTHER -> c

\* str.lower()
Lower(s) == [i \in 1..Len(s) |-> LowerChar(s[i])]

\* str.startswith(p)
StartsWith(s, p) == Len(s) >= Len(p) /\ SubSeq(s, 1, Len(p)) = p

RECURSIVE LStripSet(_, _)
LStripSet(s, cs) ==
    IF s # <<>> /\ Head(s) \in cs THEN LStripSet(Tail(s), cs) ELSE s

RECURSIVE RStripSet(_, _)
RStripSet(s, cs) ==
    IF s # <<>> /\ s[Len(s)] \in cs
    THEN RStripSet(SubSeq(s, 1, Len(s) - 1), cs) ELSE s

\* str.strip(chars)
StripSet(s, cs) == RStripSet(LStripSet(s, cs), cs)

\* str.strip()
Strip(s) == StripSet(s, {" ", "\n", "\t"})

\* s.split(" ", 1)[1]; the caller guarantees that s holds a space
RECURSIVE AfterFirstSpace(_)
AfterFirstSpace(s) ==
    IF s = <<>> THEN <<>>
    ELSE IF Head(s) = " " THEN Tail(s) ELSE AfterFirstSpace(Tail(s))

\* len(s.split()): the number of maximal runs of non-whitespace, counted at
\* the position each run starts
WordCount(s) ==
    Cardinality({i \in 1..Len(s) :
                    ~IsSpace(s[i]) /\ (i = 1 \/ IsSpace(s[i - 1]))})

\* ord(c) of the characters that titles are made of
Ord(c) ==
    CASE c = " " -> 32 [] c = "A" -> 65 [] c = "B" -> 66
      [] c = "a" -> 97 [] c = "b" -> 98 [] OTHER -> 0

\* s < t, as Firestore orders string fields
RECURSIVE StrLess(_, _)
StrLess(s, t) ==
    IF t = <<>> THEN FALSE
    ELSE IF s = <<>> THEN TRUE
    ELSE IF Head(s) = Head(t) THEN StrLess(Tail(s), Tail(t))
    ELSE Ord(Head(s)) < Ord(Head(t))

RECURSIVE Join(_)
Join(parts) == IF parts = <<>> THEN <<>> ELSE Head(parts) \o Join(Tail(parts))

---------------------------------------------------------------------------
(* Identity: the Firebase verifier and get_uid.                            *)

Uids == {"u1", "u2"}

Bearer == <<"b", "e", "a", "r", "e", "r", " ">>

\* fb_auth.verify_id_token(token): the decoded uid, or "" when it raises
verify_id_token(token) ==
    CASE token = <<"t", "1">> -> "u1"
      [] token = <<"t", "2">> -> "u2"
      [] OTHER -> ""

\* A mutant of get_uid: the scheme is not checked.
get_uid_any_scheme(authorization) ==
    IF ~Truthy(authorization)
    THEN [ok |-> FALSE, uid |-> "", status |-> 401, detail |-> "Missing Bearer token"]
    ELSE LET uid == verify_id_token(Strip(AfterFirstSpace(authorization)))
         IN IF uid # ""
            THEN [ok |-> TRUE, uid |-> uid, status |-> 200, detail |-> ""]
            ELSE [ok |-> FALSE, uid |-> "", status |-> 401,
                  detail |-> "Invalid or expired token"]

get_uid(authorization) ==
    IF ~Truthy(authorization) \/ ~StartsWith(Lower(authorization), Bearer)
    THEN [ok |-> FALSE, uid |-> "", status |-> 401, detail |-> "Missing Bearer token"]
    ELSE LET token == Strip(AfterFirstSpace(authorization))
             uid == verify_id_token(token)
         IN IF uid # ""
            THEN [ok |-> TRUE, uid |-> uid, status |-> 200, detail |-> ""]
            ELSE [ok |-> FALSE, uid |-> "", status |-> 401,
                  detail |-> "Invalid or expired token"]

\* The Authorization headers requests carry.
Headers ==
    { NoneVal,
      <<"B", "e", "a", "r", "e", "r", " ", "t", "1">>,
      <<"b", "e", "a", "r", "E", "R", " ", " ", "t", "2", " ">>,
      <<"B", "e", "a", "r", "e", "r", " ", "t", "9">>,
      <<"B", "a", "s", "i", "c", " ", "t", "1">>,
      <<"t", "2">> }

---------------------------------------------------------------------------
(* The request log: what the last request was, how it was answered and     *)
(* what it touched on the way (document-store reads and writes, chat       *)
(* completion calls, outbound HTTP probes).  body holds the fields of the  *)
(* request that the handler got to read before it answered.                *)

NoIO == [reads |-> 0, writes |-> 0, llm |-> <<>>, probes |-> 0]

Served(route, authorization, body, status, result, io) ==
    [route |-> route, authorization |-> authorization, body |-> body,
     status |-> status, result |-> result, io |-> io]

NoRequest == Served("none", NoneVal, <<>>, 0, <<>>, NoIO)

\* Requests are served one at a time: the next one is taken up once the
\* response of the last one has been handed to the client.
Idle == last = NoRequest

deliver ==
    /\ ~Idle
    /\ last' = NoRequest
    /\ UNCHANGED <<projects, stage_field, stages, uuid_ctr, openai_ready, api_key,
                   env021, pitch_packs>>

\* Depends(get_uid) raised: FastAPI answers before the handler body runs
Unauthorized(route, authorization) ==
    Served(route, authorization, <<>>, get_uid(authorization).status,
           get_uid(authorization).detail, NoIO)

---------------------------------------------------------------------------
(* backend/app.py: make_openai_client and the engine map.                  *)

\* make_openai_client() is not None
make_openai_client == openai_ready /\ api_key

Engines == {"gpt-5-mini", "gpt-5", "manthan-lora"}

ENGINE_MAP(e) ==
    CASE e = "gpt-5-mini" -> "gpt-4o-mini"
      [] e = "gpt-5" -> "gpt-4.1"
      [] e = "manthan-lora" -> "gpt-4o-mini"

_model_for_engine(engine) ==
    IF engine \in Engines THEN ENGINE_MAP(engine) ELSE ENGINE_MAP("gpt-5-mini")

\* v or d, of an Optional[str] held as an atom
OrAtom(v, d) == IF v = NoneAtom \/ v = "" THEN d ELSE v

\* "Drama" and "Grounded, character-driven"
DefaultGenre == <<"D", "r", "a", "m", "a">>

DefaultTone ==
    <<"G", "r", "o", "u", "n", "d", "e", "d", ",", " ", "c", "h", "a", "r", "a", "c", "t", "e", "r",
      "-", "d", "r", "i", "v", "e", "n">>

---------------------------------------------------------------------------
(* backend/app.py: health and debug routes.                                *)

plain_health ==
    /\ Idle
    /\ last' = Served("plain_health", NoneVal, <<>>, 200, [status |-> "ok"], NoIO)
    /\ UNCHANGED <<projects, stage_field, stages, uuid_ctr, openai_ready, api_key,
                   env021, pitch_packs>>

api_health ==
    /\ Idle
    /\ last' = Served("api_health", NoneVal, <<>>, 200, [ok |-> TRUE], NoIO)
    /\ UNCHANGED <<projects, stage_field, stages, uuid_ctr, openai_ready, api_key,
                   env021, pitch_packs>>

debug_whoami ==
    /\ Idle
    /\ \E authorization \in Headers :
         last' = IF ~get_uid(authorization).ok
                 THEN Unauthorized("debug_whoami", authorization)
                 ELSE Served("debug_whoami", authorization, <<>>, 200,
                             [has_key |-> api_key], NoIO)
    /\ UNCHANGED <<projects, stage_field, stages, uuid_ctr, openai_ready, api_key,
                   env021, pitch_packs>>

\* httpx.get either answers with an HTTP status or raises
ProbeOutcomes == {"200", "401", "raise"}

debug_openai_ping ==
    /\ Idle
    /\ \E authorization \in Headers :
         IF ~get_uid(authorization).ok
         THEN last' = Unauthorized("debug_openai_ping", authorization)
         ELSE IF ~api_key
         THEN last' = Served("debug_openai_ping", authorization, <<>>, 500,
                             "No OPENAI_API_KEY env", NoIO)
         ELSE \E outcome \in ProbeOutcomes :
                last' = IF outcome = "raise"
                        THEN Served("debug_openai_ping", authorization, <<>>, 502,
                                    "Outbound probe failed",
                                    [NoIO EXCEPT !.probes = 1])
                        ELSE Served("debug_openai_ping", authorization, <<>>, 200,
                                    [status |-> outcome, ok |-> outcome = "200"],
                                    [NoIO EXCEPT !.probes = 1])
    /\ UNCHANGED <<projects, stage_field, stages, uuid_ctr, openai_ready, api_key,
                   env021, pitch_packs>>

---------------------------------------------------------------------------
(* backend/app.py: projects.                                               *)

ProjectIds == 1..MaxProjects

\* ProjectIn payloads; the second one fails the min_length of title
Payloads ==
    { [title |-> <<"A", "b">>, logline |-> <<"b", " ", "a", " ", "b">>,
       genre |-> <<"D", "r", "a", "m", "a">>, tone |-> NoneVal,
       creator_name |-> <<"A">>],
      [title |-> <<"A">>, logline |-> <<"a", " ", "b", " ", "a">>,
       genre |-> NoneVal, tone |-> NoneVal, creator_name |-> NoneVal] }

\* the Field constraints of ProjectIn
ProjectInValid(payload) ==
    /\ Len(payload.title) >= 2 /\ Len(payload.title) <= 120
    /\ Len(payload.logline) >= 5 /\ Len(payload.logline) <= 400

\* Project(id=doc.id, **doc.to_dict())
_doc_to_project(id) == [id |-> id] @@ projects[id]

\* (title, id) order of two project ids
DocBefore(a, b) ==
    \/ StrLess(projects[a].title, projects[b].title)
    \/ projects[a].title = projects[b].title /\ a < b

RECURSIVE OrderByTitle(_)
OrderByTitle(S) ==
    IF S = {} THEN <<>>
    ELSE LET first == CHOOSE a \in S : \A b \in S \ {a} : DocBefore(a, b)
         IN <<first>> \o OrderByTitle(S \ {first})

\* A mutant of the query of list_projects: the owner filter is dropped.
QueryAll(uid) == OrderByTitle(DOMAIN projects)

\* .where("owner_uid", "==", uid).order_by("title").stream()
QueryByOwner(uid) ==
    OrderByTitle({id \in DOMAIN projects : projects[id].owner_uid = uid})

list_projects ==
    /\ Idle
    /\ \E authorization \in Headers :
         LET auth == get_uid(authorization)
             docs == QueryByOwner(auth.uid)
         IN last' = IF ~auth.ok
                    THEN Unauthorized("list_projects", authorization)
                    ELSE Served("list_projects", authorization, <<>>, 200,
                                [i \in 1..Len(docs) |-> _doc_to_project(docs[i])],
                                [NoIO EXCEPT !.reads = 1])
    /\ UNCHANGED <<projects, stage_field, stages, uuid_ctr, openai_ready, api_key,
                   env021, pitch_packs>>

\* db.collection(...).document(): a fresh document id
NewProjectId == Cardinality(DOMAIN projects) + 1

\* A mutant of the document create_project stores: the owner is left out.
ProjectDataNoOwner(payload, uid) == payload @@ [owner_uid |-> NoneAtom]

\* data = payload.dict(); data["owner_uid"] = uid
ProjectData(payload, uid) == [owner_uid |-> uid] @@ payload

CreateProject(payloads) ==
    /\ Idle
    /\ \E authorization \in Headers :
         LET auth == get_uid(authorization)
         IN IF ~auth.ok
            THEN /\ last' = Unauthorized("create_project", authorization)
                 /\ UNCHANGED projects
            ELSE \E payload \in payloads :
                   LET data == ProjectData(payload, auth.uid)
                   IN IF ~ProjectInValid(payload)
                      THEN /\ last' = Served("create_project", authorization, payload,
                                             422, "validation error", NoIO)
                           /\ UNCHANGED projects
                      ELSE /\ Cardinality(DOMAIN projects) < MaxProjects
                           /\ projects' = (NewProjectId :> data) @@ projects
                           /\ last' = Served("create_project", authorization, payload,
                                             201, [id |-> NewProjectId] @@ data,
                                             [NoIO EXCEPT !.writes = 1])
    /\ UNCHANGED <<stage_field, stages, uuid_ctr, openai_ready, api_key,
                   env021, pitch_packs>>

create_project == CreateProject(Payloads)

---------------------------------------------------------------------------
(* backend/app.py: pitch generation.                                       *)

\* JSON documents a reply may hold, each one atom of the content, and the
\* value json.loads gives for it.
JsonDocs == {"{full}", "{min}", "{nosyn}", "{badtypes}", "[list]"}

JStr(v) == [t |-> "str", v |-> v]

JList(v) == [t |-> "list_str", v |-> v]

JsonValue(doc) ==
    CASE doc = "{full}" ->
           [t |-> "dict",
            v |-> [title |-> JStr(<<"T">>), logline |-> JStr(<<"L">>),
                   synopsis |-> JStr(<<"S">>),
                   beat_sheet |-> JList(<<"beat 1", "beat 2">>),
                   deck_outline |-> JList(<<"slide 1">>)]]
      [] doc = "{min}" ->
           [t |-> "dict",
            v |-> [synopsis |-> JStr(<<"S">>),
                   beat_sheet |-> JList(<<"beat 1">>),
                   deck_outline |-> JList(<<"slide 1">>)]]
      [] doc = "{nosyn}" ->
           [t |-> "dict",
            v |-> [title |-> JStr(<<"T">>),
                   beat_sheet |-> JList(<<"beat 1">>),
                   deck_outline |-> JList(<<"slide 1">>)]]
      [] doc = "{badtypes}" ->
           [t |-> "dict",
            v |-> [synopsis |-> JStr(<<"S">>),
                   beat_sheet |-> JStr(<<"b">>),
                   deck_outline |-> JList(<<"slide 1">>)]]
      [] doc = "[list]" -> [t |-> "list", v |-> <<>>]

\* json.loads(content): whitespace around the document is skipped
json_loads(content) ==
    LET doc == Strip(content)
    IN IF Len(doc) = 1 /\ doc[1] \in JsonDocs
       THEN [ok |-> TRUE, data |-> JsonValue(doc[1])]
       ELSE [ok |-> FALSE]

\* three backquotes; a TLA+ string cannot hold one, so it is written "<tick>"
Fence == <<"<tick>", "<tick>", "<tick>">>

\* content as _call_llm_json hands it to json.loads
UnfencedContent(reply) ==
    LET content == Strip(OrElse(reply.content, <<>>))
        inner == StripSet(content, {"<tick>"})
    IN IF ~StartsWith(content, Fence) THEN content
       ELSE IF StartsWith(inner, <<"j", "s", "o", "n">>)
       THEN Strip(SubSeq(inner, 5, Len(inner)))
       ELSE inner

\* _call_llm_json, given what the provider does with the call
_call_llm_json(reply) ==
    IF ~make_openai_client
    THEN [status |-> 500, detail |-> "LLM not configured"]
    ELSE IF reply.kind = "raise"
    THEN [status |-> 502, detail |-> "LLM generation failed"]
    ELSE IF ~json_loads(UnfencedContent(reply)).ok
    THEN [status |-> 502, detail |-> "LLM generation failed"]
    ELSE [status |-> 200, data |-> json_loads(UnfencedContent(reply)).data]

_pitch_system(language) ==
    <<"You are Manthan, ...">>
    \o (IF language \notin {NoneAtom, "", "en"}
        THEN <<" Respond using language code: ", language, ".">> ELSE <<>>)

_pitch_user_prompt(title, logline, genre, tone) ==
    <<"TITLE: ">> \o title \o <<"\n", "LOGLINE: ">> \o logline
    \o <<"\n", "GENRE: ">> \o genre \o <<"\n", "TONE: ">> \o tone
    \o <<"\n", "TASK: ...", "_PITCH_JSON_INSTRUCTIONS">>

\* the title, logline, genre and tone generate_pitch works with
PitchFields(payload) ==
    [title |-> Strip(payload.title),
     logline |-> Strip(payload.logline),
     genre |-> Strip(OrElse(payload.genre, DefaultGenre)),
     tone |-> Strip(OrElse(payload.tone, DefaultTone))]

\* PitchPack(**{...data...}) inside the try: the pack, or the exception
PackFromData(data, f) ==
    IF data.t # "dict" THEN [ok |-> FALSE]
    ELSE IF ~({"synopsis", "beat_sheet", "deck_outline"} \subseteq DOMAIN data.v)
    THEN [ok |-> FALSE]
    ELSE LET get(k, d) == IF k \in DOMAIN data.v THEN data.v[k] ELSE JStr(d)
             title == get("title", f.title)
             logline == get("logline", f.logline)
         IN IF \/ title.t # "str" \/ logline.t # "str"
               \/ data.v.synopsis.t # "str"
               \/ data.v.beat_sheet.t # "list_str"
               \/ data.v.deck_outline.t # "list_str"
            THEN [ok |-> FALSE]
            ELSE [ok |-> TRUE,
                  pack |-> [title |-> title.v, logline |-> logline.v,
                            synopsis |-> data.v.synopsis.v,
                            beat_sheet |-> data.v.beat_sheet.v,
                            deck_outline |-> data.v.deck_outline.v]]

\* the deterministic template PitchPack
FallbackPack(f) ==
    [title |-> f.title,
     logline |-> f.logline,
     synopsis |-> <<"**">> \o f.title \o <<"** is a ">> \o Lower(f.genre)
                  \o <<" set against an Indian backdrop, told with a ">>
                  \o Lower(f.tone) \o <<" tone. It centers on: ">> \o f.logline
                  \o <<". We enter through ...">>,
     beat_sheet |-> <<"Opening Image", "Theme Stated", "Catalyst", "Debate",
                      "Break into Two", "First Sequence Wins/Losses", "Midpoint",
                      "Bad Guys Close In", "All Is Lost", "Break into Three",
                      "Finale", "Final Image">>,
     deck_outline |-> <<"Cover", "Why Now / Audience", "World & Characters",
                        "Story", "Lookbook", "Market & Comps",
                        "Team & Attachments", "Production Notes", "Next Steps">>]

\* PitchRequest bodies.
PitchRequests ==
    { [title |-> <<" ", "A", "b">>, logline |-> <<"a", " ", "b", "\n">>,
       genre |-> NoneVal, tone |-> NoneVal,
       engine |-> NoneAtom, language |-> NoneAtom],
      [title |-> <<"B">>, logline |-> <<"b">>,
       genre |-> <<"S", "c", "i", "F", "i", " ">>, tone |-> <<"D", "r", "y">>,
       engine |-> "manthan-lora", language |-> "hi"],
      [title |-> <<"A", "b">>, logline |-> <<" ">>,
       genre |-> <<" ">>, tone |-> <<>>,
       engine |-> "gpt-5", language |-> "en"] }

\* What the chat completion call of a pitch request does.
PitchReplies ==
    { [kind |-> "raise"],
      [kind |-> "content", content |-> NoneVal],
      [kind |-> "content", content |-> <<" ">>],
      [kind |-> "content", content |-> <<"S", "o", "r", "r", "y">>],
      [kind |-> "content", content |-> <<"{full}", "\n">>],
      [kind |-> "content",
       content |-> Fence \o <<"j", "s", "o", "n", "\n", "{full}", "\n">> \o Fence],
      [kind |-> "content", content |-> Fence \o <<"\n", "{min}", "\n">> \o Fence],
      [kind |-> "content", content |-> Fence \o <<"j", "s", "\n", "{full}">> \o Fence],
      [kind |-> "content", content |-> <<"{nosyn}">>],
      [kind |-> "content", content |-> <<"{badtypes}">>],
      [kind |-> "content", content |-> <<"[list]">>] }

SamplePitchReplies ==
    { [kind |-> "content", content |-> <<"{full}", "\n">>],
      [kind |-> "content", content |-> <<"S", "o", "r", "r", "y">>] }

GeneratePitch(requests, replies) ==
    /\ Idle
    /\ \E authorization \in Headers :
         IF ~get_uid(authorization).ok
         THEN last' = Unauthorized("generate_pitch", authorization)
         ELSE \E payload \in requests :
           LET f == PitchFields(payload)
               engine == OrAtom(payload.engine, "gpt-5-mini")
               language == OrAtom(payload.language, "en")
           IN IF ~make_openai_client
              THEN last' = Served("generate_pitch", authorization, payload, 200,
                                  FallbackPack(f), NoIO)
              ELSE \E reply \in replies :
                LET system == _pitch_system(language)
                    user0 == _pitch_user_prompt(f.title, f.logline, f.genre, f.tone)
                    user == IF engine = "manthan-lora"
                            THEN user0 \o <<"\n", "STYLE NOTES: ...">> ELSE user0
                    call == [model |-> _model_for_engine(engine), system |-> system,
                             user |-> user, temperature |-> "0.8"]
                    io == [NoIO EXCEPT !.llm = <<call>>]
                    got == _call_llm_json(reply)
                    body == payload @@ [reply |-> reply]
                IN last' = IF got.status # 200
                           THEN Served("generate_pitch", authorization, body,
                                       got.status, got.detail, io)
                           ELSE IF PackFromData(got.data, f).ok
                           THEN Served("generate_pitch", authorization, body, 200,
                                       PackFromData(got.data, f).pack, io)
                           ELSE Served("generate_pitch", authorization, body, 200,
                                       FallbackPack(f), io)
    /\ UNCHANGED <<projects, stage_field, stages, uuid_ctr, openai_ready, api_key,
                   env021, pitch_packs>>

generate_pitch == GeneratePitch({p \in PitchRequests : p.genre = NoneVal},
                                SamplePitchReplies)

generate_pitch_all == GeneratePitch(PitchRequests, PitchReplies)

---------------------------------------------------------------------------
(* backend/app.py: stage generate and stage choose.                        *)

StageName == {"outline", "onepager", "screenplay", "script", "dialogue"}

\* The stage that requests name: the handlers treat the five stages alike
\* but for the text of the prompt.
ReqStages == {"outline"}

\* A mutant of _get_project_for_owner: the owner is not compared.
_get_project_no_owner_check(project_id, uid) ==
    IF project_id \notin DOMAIN projects
    THEN [status |-> 404, detail |-> "Project not found"]
    ELSE [status |-> 200, detail |-> ""]

_get_project_for_owner(project_id, uid) ==
    IF project_id \notin DOMAIN projects
    THEN [status |-> 404, detail |-> "Project not found"]
    ELSE IF projects[project_id].owner_uid \notin {NoneAtom, ""}
            /\ projects[project_id].owner_uid # uid
    THEN [status |-> 403, detail |-> "Forbidden"]
    ELSE [status |-> 200, detail |-> ""]

_stage_system_prompt(stage, language) ==
    <<"You are Manthan, ...">>
    \o (IF language \notin {NoneAtom, "", "en"}
        THEN <<" Respond in language code: ", language, ".">> ELSE <<>>)
    \o <<" ", "stage_note:" \o stage>>

_stage_user_prompt(stage, p, tweak) ==
    <<"TITLE: ">> \o p.title \o <<"\n", "LOGLINE: ">> \o p.logline
    \o <<"\n", "GENRE: ">> \o OrElse(p.genre, DefaultGenre)
    \o <<"\n", "TONE: ">> \o OrElse(p.tone, DefaultTone)
    \o <<"\n", "INSTRUCTIONS: ...">>
    \o (IF tweak # <<>> THEN <<"\n", "STEERING_NOTE: ">> \o tweak ELSE <<>>)
    \o <<"\n", "extras:" \o stage>>

\* The tweak, engine and language of StageGenerateRequest bodies.
GenOptions ==
    { [tweak |-> NoneVal, engine |-> NoneAtom, language |-> NoneAtom],
      [tweak |-> <<"n", "o", "i", "r">>, engine |-> "manthan-lora", language |-> "hi"] }

SampleOptions ==
    { [tweak |-> <<"n", "o", "i", "r">>, engine |-> "manthan-lora", language |-> "hi"] }

\* What one chat.completions.create call does: message.content, or it raises.
Replies ==
    { [kind |-> "content", content |-> <<" ", "a", "\n">>],
      [kind |-> "content", content |-> <<" ">>],
      [kind |-> "content", content |-> NoneVal],
      [kind |-> "raise"] }

EmptyText == <<"(", "e", "m", "p", "t", "y", ")">>

\* for _ in range(3)
Attempts == 3

\* the argument of one chat.completions.create call of stage_generate
StageCall(model, sys_prompt, usr_prompt) ==
    [model |-> model, system |-> sys_prompt, user |-> usr_prompt,
     temperature |-> "0.85"]

\* A mutant of StageAttempt: a call that raised is issued once more.
StageAttemptRetrying(acc, reply, call) ==
    IF reply.kind = "raise"
    THEN [acc EXCEPT !.calls = Append(Append(@, call), call), !.last_err = "APIError"]
    ELSE LET content == Strip(OrElse(reply.content, <<>>))
         IN [acc EXCEPT !.calls = Append(@, call),
                        !.texts = Append(@, IF content # <<>> THEN content
                                            ELSE EmptyText)]

\* one pass of the loop body: try create / append, except record last_err
StageAttempt(acc, reply, call) ==
    IF reply.kind = "raise"
    THEN [acc EXCEPT !.calls = Append(@, call), !.last_err = "APIError"]
    ELSE LET content == Strip(OrElse(reply.content, <<>>))
         IN [acc EXCEPT !.calls = Append(@, call),
                        !.texts = Append(@, IF content # <<>> THEN content
                                            ELSE EmptyText)]

RECURSIVE StageLoop(_, _, _, _)
StageLoop(i, script, call, acc) ==
    IF i > Len(script) THEN acc
    ELSE StageLoop(i + 1, script, call, StageAttempt(acc, script[i], call))

\* Every way the provider may answer the calls of one request.
AllScripts == [1..Attempts -> Replies]

\* One of them, with a second text: two candidates around an error.
SampleScripts ==
    LET a == [kind |-> "content", content |-> <<" ", "a", "\n">>]
        b == [kind |-> "content", content |-> <<"b">>]
        raise == [kind |-> "raise"]
    IN {<<a, raise, b>>}

DemoText(stage, p) ==
    <<"[DEMO] ", stage, " draft for '">> \o p.title
    \o <<"' - refine once LLM key is set.">>

\* [Candidate(id=str(uuid.uuid4()), text=t, meta={"engine": body.engine}) ...]
Candidates(texts, engine) ==
    [i \in 1..Len(texts) |->
        [id |-> uuid_ctr + i, text |-> texts[i], meta |-> [engine |-> engine]]]

\* .set({...}, merge=True): the fields given replace, the others stay.
\* updated_at, a server-side timestamp no handler reads, is not modelled.
MergeGenerated(key, cands, body) ==
    [last_generated |-> cands,
     engine |-> body.engine,
     language |-> OrAtom(body.language, "en"),
     tweak |-> OrElse(body.tweak, <<>>),
     chosen |-> IF key \in DOMAIN stages THEN stages[key].chosen ELSE <<>>]

\* any(c.text == "(empty)" for c in cands)
AnyEmpty(cands) == \E i \in 1..Len(cands) : cands[i].text = EmptyText

StageGenerate(req_pids, req_stages, options, scripts) ==
    /\ Idle
    /\ \E authorization \in Headers :
         LET auth == get_uid(authorization)
         IN IF ~auth.ok
            THEN /\ last' = Unauthorized("stage_generate", authorization)
                 /\ UNCHANGED <<stages, uuid_ctr>>
            ELSE \E project_id \in req_pids :
              LET own == _get_project_for_owner(project_id, auth.uid)
              IN IF own.status # 200
                 THEN /\ last' = Served("stage_generate", authorization,
                                        [project_id |-> project_id],
                                        own.status, own.detail,
                                        [NoIO EXCEPT !.reads = 1])
                      /\ UNCHANGED <<stages, uuid_ctr>>
                 ELSE \E stage \in req_stages, opt \in options,
                         script \in IF make_openai_client THEN scripts ELSE {<<>>} :
                   LET body == [project_id |-> project_id, stage |-> stage] @@ opt
                       p == _doc_to_project(project_id)
                       sys_prompt == _stage_system_prompt(stage, OrAtom(body.language, "en"))
                       usr0 == _stage_user_prompt(stage, p, OrElse(body.tweak, <<>>))
                       usr_prompt == IF body.engine = "manthan-lora"
                                     THEN usr0 \o <<"\n", "FEW-SHOT STYLE SIGNALS: ...">>
                                     ELSE usr0
                       model == _model_for_engine(OrAtom(body.engine, "gpt-5-mini"))
                       run == StageLoop(1, script,
                                        StageCall(model, sys_prompt, usr_prompt),
                                        [texts |-> <<>>, last_err |-> NoneAtom,
                                         calls |-> <<>>])
                       texts == IF run.texts = <<>> THEN <<DemoText(stage, p)>>
                                ELSE run.texts
                       cands == Candidates(texts, body.engine)
                       io == [reads |-> 1, writes |-> 1, llm |-> run.calls,
                              probes |-> 0]
                   IN /\ uuid_ctr < MaxUuid
                      /\ uuid_ctr' = uuid_ctr + Len(cands)
                      /\ stages' = (<<project_id, stage>> :>
                                      MergeGenerated(<<project_id, stage>>, cands, body))
                                   @@ stages
                      /\ last' = IF AnyEmpty(cands)
                                 THEN Served("stage_generate", authorization,
                                             body @@ [script |-> script], 502,
                                             <<"LLM generation failed: ",
                                               OrAtom(run.last_err, "empty output")>>,
                                             io)
                                 ELSE Served("stage_generate", authorization,
                                             body @@ [script |-> script], 200,
                                             [candidates |-> cands], io)
    /\ UNCHANGED <<projects, stage_field, openai_ready, api_key, env021, pitch_packs>>

stage_generate == StageGenerate(ProjectIds, ReqStages, SampleOptions, SampleScripts)

\* Every script and every option, on the first project.
stage_generate_all == StageGenerate({1}, ReqStages, GenOptions, AllScripts)

\* The edits of StageChooseRequest bodies.
Edits == {<<>>, <<" ", "x", " ">>, <<" ">>}

\* The chosen_id of StageChooseRequest bodies; 0 is an id never handed out.
ChosenIds == 0..(MaxUuid + Attempts - 1)

\* The candidates of list cands that a chosen_id selects.
RECURSIVE Matching(_, _)
Matching(cands, chosen_id) ==
    IF cands = <<>> THEN <<>>
    ELSE IF Head(cands).id = chosen_id THEN <<Head(cands)>>
    ELSE Matching(Tail(cands), chosen_id)

\* A mutant of FindChosen: an unknown id falls back to the first candidate.
FindChosenOrFirst(cands, chosen_id) ==
    IF Matching(cands, chosen_id) # <<>> THEN Matching(cands, chosen_id)
    ELSE SubSeq(cands, 1, 1)

\* next((c for c in cands if c.get("id") == body.chosen_id), None), as a
\* sequence of at most one candidate
FindChosen(cands, chosen_id) == Matching(cands, chosen_id)

\* A mutant of ChosenText: the edits are stored as they came.
ChosenTextUntrimmed(edits, chosen) ==
    IF Truthy(edits) THEN edits ELSE chosen.text

\* body.edits.strip() if body.edits else (chosen.get("text") or "")
ChosenText(edits, chosen) ==
    IF Truthy(edits) THEN Strip(edits) ELSE chosen.text

StageChoose(req_stages, edits_of) ==
    /\ Idle
    /\ \E authorization \in Headers :
         LET auth == get_uid(authorization)
         IN IF ~auth.ok
            THEN /\ last' = Unauthorized("stage_choose", authorization)
                 /\ UNCHANGED stages
            ELSE \E project_id \in ProjectIds :
              LET own == _get_project_for_owner(project_id, auth.uid)
              IN IF own.status # 200
                 THEN /\ last' = Served("stage_choose", authorization,
                                        [project_id |-> project_id],
                                        own.status, own.detail,
                                        [NoIO EXCEPT !.reads = 1])
                      /\ UNCHANGED stages
                 ELSE \E stage \in req_stages :
                   LET key == <<project_id, stage>>
                   IN IF key \notin DOMAIN stages
                      THEN /\ last' = Served("stage_choose", authorization,
                                             [project_id |-> project_id, stage |-> stage],
                                             400, "Nothing generated for this stage yet",
                                             [NoIO EXCEPT !.reads = 2])
                           /\ UNCHANGED stages
                      ELSE \E chosen_id \in ChosenIds :
                        LET chosen == FindChosen(stages[key].last_generated, chosen_id)
                        IN IF chosen = <<>>
                           THEN /\ last' = Served("stage_choose", authorization,
                                                  [project_id |-> project_id,
                                                   stage |-> stage,
                                                   chosen_id |-> chosen_id],
                                                  404, "Chosen candidate not found",
                                                  [NoIO EXCEPT !.reads = 2])
                                /\ UNCHANGED stages
                           ELSE \E edits \in edits_of :
                             LET chosen_text == ChosenText(edits, chosen[1])
                             IN /\ stages' = [stages EXCEPT ![key].chosen =
                                     <<[id |-> chosen_id, text |-> chosen_text,
                                        meta |-> chosen[1].meta]>>]
                                /\ last' = Served("stage_choose", authorization,
                                       [project_id |-> project_id, stage |-> stage,
                                        chosen_id |-> chosen_id, edits |-> edits],
                                       200,
                                       [ok |-> TRUE, stage |-> stage,
                                        chosen_id |-> chosen_id],
                                       [reads |-> 2, writes |-> 1, llm |-> <<>>,
                                        probes |-> 0])
    /\ UNCHANGED <<projects, stage_field, uuid_ctr, openai_ready, api_key,
                   env021, pitch_packs>>

stage_choose == StageChoose(ReqStages, Edits)

---------------------------------------------------------------------------
(* Specifications of backend/app.py.                                       *)

\* The state after start-up, for a deployment whose SDK import and API key
\* are as given.
InitWith(sdk, key) ==
    /\ projects = <<>>
    /\ stage_field = <<>>
    /\ stages = <<>>
    /\ uuid_ctr = 0
    /\ openai_ready \in sdk
    /\ api_key \in key
    /\ env021 = [use_model |-> FALSE, has_key |-> FALSE, autosave |-> FALSE]
    /\ pitch_packs = <<>>
    /\ last = NoRequest

\* The whole service, with the SDK installed.
Init == InitWith({TRUE}, BOOLEAN)

Next ==
    \/ deliver
    \/ plain_health
    \/ api_health
    \/ debug_whoami
    \/ debug_openai_ping
    \/ list_projects
    \/ create_project
    \/ generate_pitch
    \/ stage_generate
    \/ stage_choose

Spec == Init /\ [][Next]_vars

\* Candidate generation under every script of replies.
InitGen == InitWith(BOOLEAN, BOOLEAN)

NextGen ==
    \/ deliver
    \/ create_project
    \/ stage_generate_all

SpecGen == InitGen /\ [][NextGen]_vars

\* Pitch generation under every reply.
InitPitch == InitWith(BOOLEAN, BOOLEAN)

NextPitch ==
    \/ deliver
    \/ generate_pitch_all

SpecPitch == InitPitch /\ [][NextPitch]_vars

\* Choosing among the candidates of two stages of each project.
TwoStages == {"outline", "script"}

\* Candidates are asked for on the first two projects; a choice may name any.
TwoProjects == {1, 2}

stage_generate_two == StageGenerate(TwoProjects, TwoStages, SampleOptions, SampleScripts)

stage_choose_two == StageChoose(TwoStages, Edits)

InitChoose == InitWith({TRUE}, BOOLEAN)

NextChoose ==
    \/ deliver
    \/ create_project
    \/ stage_generate_two
    \/ stage_choose_two

SpecChoose == InitChoose /\ [][NextChoose]_vars

---------------------------------------------------------------------------
(* backend/app_stages.py: generate_stage and choose_stage.                 *)

Stage == {"outline", "onepager", "screenplay", "script", "dialogue"}

\* A mutant of next_stage_map: the script stage is skipped over.
next_stage_map_skipping ==
    [outline |-> "onepager", onepager |-> "screenplay", screenplay |-> "dialogue",
     script |-> "dialogue", dialogue |-> "final"]

next_stage_map ==
    [outline |-> "onepager", onepager |-> "screenplay", screenplay |-> "script",
     script |-> "dialogue", dialogue |-> "final"]

\* get_db() is imported from app, and app.py as it stands defines no such
\* function; it is taken to hand out the Firestore client of app.py, whose
\* "projects" collection create_project writes.
get_db == projects

\* not doc.exists or doc.to_dict().get("owner_uid") != uid
ProjectMissingFor(project_id, uid) ==
    \/ project_id \notin DOMAIN get_db
    \/ get_db[project_id].owner_uid # uid

\* payload.stage.upper()
UpperStage(stage) ==
    CASE stage = "outline" -> "OUTLINE"
      [] stage = "onepager" -> "ONEPAGER"
      [] stage = "screenplay" -> "SCREENPLAY"
      [] stage = "script" -> "SCRIPT"
      [] stage = "dialogue" -> "DIALOGUE"

StageGenIns ==
    { [tweak |-> NoneVal, engine |-> NoneAtom],
      [tweak |-> <<"n", "o", "i", "r">>, engine |-> "gpt-5"] }

\* the three stub candidates
StubCandidates(stage, payload) ==
    LET base == <<"[", UpperStage(stage), "] engine=",
                  OrAtom(payload.engine, "gpt-5-mini")>>
        steer == IF Truthy(payload.tweak) THEN <<" | tweak: ">> \o payload.tweak
                 ELSE <<>>
    IN << [id |-> "c1", text |-> base \o <<" - Option A">> \o steer, meta |-> <<>>],
          [id |-> "c2", text |-> base \o <<" - Option B">> \o steer, meta |-> <<>>],
          [id |-> "c3", text |-> base \o <<" - Option C">> \o steer, meta |-> <<>>] >>

generate_stage ==
    /\ Idle
    /\ \E authorization \in Headers :
         LET auth == get_uid(authorization)
         IN IF ~auth.ok
            THEN last' = Unauthorized("generate_stage", authorization)
            ELSE \E project_id \in ProjectIds :
              IF ProjectMissingFor(project_id, auth.uid)
              THEN last' = Served("generate_stage", authorization,
                                  [project_id |-> project_id], 404,
                                  "Project not found", [NoIO EXCEPT !.reads = 1])
              ELSE \E stage \in Stage, payload \in StageGenIns :
                last' = Served("generate_stage", authorization,
                               [project_id |-> project_id, stage |-> stage] @@ payload,
                               200,
                               [candidates |-> StubCandidates(stage, payload)],
                               [NoIO EXCEPT !.reads = 1])
    /\ UNCHANGED <<projects, stage_field, stages, uuid_ctr, openai_ready, api_key,
                   env021, pitch_packs>>

choose_stage ==
    /\ Idle
    /\ \E authorization \in Headers :
         LET auth == get_uid(authorization)
         IN IF ~auth.ok
            THEN /\ last' = Unauthorized("choose_stage", authorization)
                 /\ UNCHANGED stage_field
            ELSE \E project_id \in ProjectIds :
              IF ProjectMissingFor(project_id, auth.uid)
              THEN /\ last' = Served("choose_stage", authorization,
                                     [project_id |-> project_id], 404,
                                     "Project not found", [NoIO EXCEPT !.reads = 1])
                   /\ UNCHANGED stage_field
              ELSE \E stage \in Stage :
                /\ stage_field' =
                     IF stage \in DOMAIN next_stage_map
                     THEN (project_id :> next_stage_map[stage]) @@ stage_field
                     ELSE stage_field
                /\ last' = Served("choose_stage", authorization,
                                  [project_id |-> project_id, stage |-> stage], 200,
                                  [ok |-> TRUE,
                                   next |-> IF stage \in DOMAIN next_stage_map
                                            THEN next_stage_map[stage] ELSE "final"],
                                  [NoIO EXCEPT !.reads = 1,
                                               !.writes = IF stage \in DOMAIN next_stage_map
                                                          THEN 1 ELSE 0])
    /\ UNCHANGED <<projects, stages, uuid_ctr, openai_ready, api_key,
                   env021, pitch_packs>>

\* The router of backend/app_stages.py served beside the project routes of
\* backend/app.py, over the one store.
InitStages == InitWith({TRUE}, {TRUE})

NextStages ==
    \/ deliver
    \/ create_project
    \/ generate_stage
    \/ choose_stage

SpecStages == InitStages /\ [][NextStages]_vars

---------------------------------------------------------------------------
(* manthan_v0_2_1/backend/app/main.py: pitch generation with a quality     *)
(* gate and autosave.  The service has no identity check.                  *)

\* n words, one space between them
Words(n) ==
    IF n = 0 THEN <<>>
    ELSE [i \in 1..(2 * n - 1) |-> IF i % 2 = 1 THEN "w" ELSE " "]

local_outline(logline) ==
    << <<"Act 1 - Inciting incident tied to: ">> \o logline,
       <<"Act 2 - Reversals & midpoint dilemma">>,
       <<"Act 3 - Climax & resolution with emotional payoff">> >>

local_one_pager(title, logline) ==
    <<"Title:", " ">> \o title \o <<"\n", "\n", "Logline:", " ">> \o logline
    \o <<"\n", "\n">> \o
        <<"Summary:", " ", "In", " ", "a", " ", "world", " ", "that", " ", 
          "mirrors", " ", "contemporary", " ", "India,", " ", "our", " ", 
          "protagonist", " ", "faces", " ", "a", " ", "choice", " ", 
          "between", " ", "duty", " ", "and", " ", "desire,", " ", 
          "escalating", " ", "through", " ", "culturally", " ", "grounded", 
          " ", "stakes.">>

local_deck ==
    <<"Cover", "Logline", "Synopsis", "Characters", "World", "Season Arc", "Why now?">>

Label(score) ==
    IF score >= 80 THEN "Strong" ELSE IF score >= 60 THEN "Decent" ELSE "Needs work"

\* one check of quality_gate: add the weight, or append the reason
Check(q, passed, weight, reason) ==
    IF passed THEN [q EXCEPT !.score = @ + weight]
    ELSE [q EXCEPT !.reasons = Append(@, reason)]

\* A mutant of quality_gate: the outline check is left out.
quality_gate_no_outline(idea, outline, one_pager) ==
    LET q0 == [score |-> 0, reasons |-> <<>>]
        q1 == Check(q0, Truthy(idea.title) /\ Len(idea.title) >= 3, 20,
                    "Title too short")
        q2 == Check(q1, Truthy(idea.logline) /\ WordCount(idea.logline) >= 10, 25,
                    "Logline needs more detail (>=10 words)")
        q3 == Check(q2, Truthy(idea.genre), 15, "No genre provided")
        q4 == Check(q3, Truthy(idea.tone), 10, "No tone provided")
        q6 == Check(q4, WordCount(one_pager) >= 60, 15, "One-pager is very short")
    IN [score |-> q6.score, label |-> Label(q6.score), reasons |-> q6.reasons]

quality_gate(idea, outline, one_pager) ==
    LET q0 == [score |-> 0, reasons |-> <<>>]
        q1 == Check(q0, Truthy(idea.title) /\ Len(idea.title) >= 3, 20,
                    "Title too short")
        q2 == Check(q1, Truthy(idea.logline) /\ WordCount(idea.logline) >= 10, 25,
                    "Logline needs more detail (>=10 words)")
        q3 == Check(q2, Truthy(idea.genre), 15, "No genre provided")
        q4 == Check(q3, Truthy(idea.tone), 10, "No tone provided")
        q5 == Check(q4, Len(outline) >= 3, 15, "Outline should have at least 3 beats")
        q6 == Check(q5, WordCount(one_pager) >= 60, 15, "One-pager is very short")
    IN [score |-> q6.score, label |-> Label(q6.score), reasons |-> q6.reasons]

\* IdeaInput bodies: a title of two characters against one of three, a
\* logline of nine words against ten, genre and tone missing, empty or
\* given, and loglines that bring the local one-pager to 59 and to 60 words.
Ideas ==
    { [title |-> <<"A", "b">>, logline |-> Words(9),
       genre |-> NoneVal, tone |-> NoneVal],
      [title |-> <<"A", "b", "c">>, logline |-> <<" ">> \o Words(10) \o <<" ", "\n">>,
       genre |-> <<"g">>, tone |-> <<>>],
      [title |-> <<"A", "b", "c">>, logline |-> Words(34),
       genre |-> <<>>, tone |-> <<"t">>],
      [title |-> <<"A", "b", "c">>, logline |-> Words(35),
       genre |-> <<"g">>, tone |-> <<"t">>] }

\* JSON documents the model may answer with, and what json.loads gives.
JsonDocs021 == {"{good}", "{long}", "{empty}", "{short}", "{pager: 7}", "[list]"}

Beats(n) == [i \in 1..n |-> <<"beat">>]

JsonValue021(doc) ==
    CASE doc = "{good}" ->
           [t |-> "dict",
            v |-> [outline |-> JList(Beats(3)), one_pager |-> JStr(Words(60)),
                   deck_outline |-> JList(Beats(6))]]
      [] doc = "{long}" ->
           [t |-> "dict",
            v |-> [outline |-> JList(Beats(9)), one_pager |-> JStr(Words(59)),
                   deck_outline |-> JList(Beats(13))]]
      [] doc = "{short}" ->
           [t |-> "dict",
            v |-> [outline |-> JList(Beats(2)), one_pager |-> JStr(Words(60)),
                   deck_outline |-> JList(Beats(1))]]
      [] doc = "{empty}" -> [t |-> "dict", v |-> <<>>]
      [] doc = "{pager: 7}" ->
           [t |-> "dict",
            v |-> [outline |-> JList(Beats(3)), one_pager |-> [t |-> "int", v |-> 7],
                   deck_outline |-> JList(Beats(6))]]
      [] doc = "[list]" -> [t |-> "list", v |-> <<>>]

\* What the chat completion call of main.py does.
Replies021 ==
    { [kind |-> "raise"],
      [kind |-> "content", content |-> NoneVal],
      [kind |-> "content", content |-> <<"{", "t", "r", "u", "n", "c">>],
      [kind |-> "content", content |-> <<"{good}">>],
      [kind |-> "content", content |-> <<"{long}", "\n">>],
      [kind |-> "content", content |-> <<"{short}">>],
      [kind |-> "content", content |-> <<"{empty}">>],
      [kind |-> "content", content |-> <<"{pager: 7}">>],
      [kind |-> "content", content |-> <<"[list]">>] }

\* s[:n]
Clamp(seq, n) == SubSeq(seq, 1, IF Len(seq) < n THEN Len(seq) ELSE n)

\* try_model_generate once USE_MODEL and the key are there: the triple, or
\* None for whatever is raised on the way.  The system prompt literal of
\* lines 101-107 breaks off inside its quotes in the file as committed; it is
\* read here as the text it spells, with the line ends as escapes.
ModelGenerate(reply) ==
    IF reply.kind = "raise" \/ IsNone(reply.content) THEN [some |-> FALSE]
    ELSE LET doc == Strip(reply.content)
         IN IF ~(Len(doc) = 1 /\ doc[1] \in JsonDocs021) THEN [some |-> FALSE]
            ELSE LET data == JsonValue021(doc[1])
                     get(k, d) == IF k \in DOMAIN data.v THEN data.v[k] ELSE d
                 IN IF data.t # "dict" THEN [some |-> FALSE]
                    ELSE [some |-> TRUE,
                          outline |-> Clamp(get("outline", JList(<<>>)).v, 8),
                          one_pager |-> get("one_pager", JStr(<<>>)),
                          deck |-> Clamp(get("deck_outline", JList(<<>>)).v, 12)]

\* What the Firestore write of autosave_pitchpack does.
SaveOutcomes == {"stored", "raise"}

\* col.document(): a fresh document id
NewPackId == Cardinality(DOMAIN pitch_packs) + 1

\* generate_pitch of main.py.  A doc_id of 0 stands for None; the created_at
\* and updated_at stamps of the stored document are not modelled.
generate_pitch_v021 ==
    /\ Idle
    /\ \E inp \in Ideas,
          reply \in IF env021.use_model /\ env021.has_key THEN Replies021
                    ELSE {[kind |-> "none"]},
          save \in IF env021.autosave THEN SaveOutcomes ELSE {"off"} :
         LET gen == IF reply.kind = "none" THEN [some |-> FALSE]
                    ELSE ModelGenerate(reply)
             outline == IF gen.some THEN gen.outline ELSE local_outline(inp.logline)
             one_pager == IF gen.some THEN gen.one_pager
                          ELSE JStr(local_one_pager(inp.title, inp.logline))
             deck == IF gen.some THEN gen.deck ELSE local_deck
             io == [NoIO EXCEPT !.llm = IF reply.kind = "none" THEN <<>>
                                        ELSE <<[model |-> "MODEL_NAME"]>>]
             body == [idea |-> inp, reply |-> reply, save |-> save]
         IN IF one_pager.t # "str"
            THEN \* one_pager.split() raises inside quality_gate
                 /\ last' = Served("generate_pitch_v021", NoneVal, body, 500,
                                   "Internal Server Error", io)
                 /\ UNCHANGED pitch_packs
            ELSE LET q == quality_gate(inp, outline, one_pager.v)
                     pack == [idea |-> inp, outline |-> outline,
                              one_pager |-> one_pager.v, deck_outline |-> deck,
                              quality |-> q]
                     result(doc_id) ==
                         [outline |-> outline, one_pager |-> one_pager.v,
                          deck_outline |-> deck, quality |-> q, doc_id |-> doc_id]
                 IN IF save = "stored"
                    THEN /\ Cardinality(DOMAIN pitch_packs) < MaxPacks
                         /\ pitch_packs' = (NewPackId :> pack) @@ pitch_packs
                         /\ last' = Served("generate_pitch_v021", NoneVal, body, 200,
                                           result(NewPackId),
                                           [io EXCEPT !.writes = 1])
                    ELSE /\ last' = Served("generate_pitch_v021", NoneVal, body, 200,
                                           result(0), io)
                         /\ UNCHANGED pitch_packs
    /\ UNCHANGED <<projects, stage_field, stages, uuid_ctr, openai_ready, api_key,
                   env021>>

config_health ==
    /\ Idle
    /\ last' = Served("config_health", NoneVal, <<>>, 200,
                      [ok |-> TRUE, use_model |-> env021.use_model,
                       autosave |-> env021.autosave], NoIO)
    /\ UNCHANGED <<projects, stage_field, stages, uuid_ctr, openai_ready, api_key,
                   env021, pitch_packs>>

InitPitch021 ==
    /\ projects = <<>>
    /\ stage_field = <<>>
    /\ stages = <<>>
    /\ uuid_ctr = 0
    /\ openai_ready = FALSE
    /\ api_key = FALSE
    /\ env021 \in [use_model : BOOLEAN, has_key : BOOLEAN, autosave : BOOLEAN]
    /\ pitch_packs = <<>>
    /\ last = NoRequest

NextPitch021 ==
    \/ deliver
    \/ config_health
    \/ generate_pitch_v021

SpecPitch021 == InitPitch021 /\ [][NextPitch021]_vars

---------------------------------------------------------------------------
(* Properties of backend/app.py.                                           *)

GatedRoutes ==
    {"list_projects", "create_project", "generate_pitch", "stage_generate",
     "stage_choose", "debug_whoami", "debug_openai_ping"}

OpenRoutes == {"plain_health", "api_health"}

BearerT1 == <<"B", "e", "a", "r", "e", "r", " ", "t", "1">>

\* The headers that are missing, not of the bearer scheme, or carry a token
\* the verifier rejects.
RejectedHeaders ==
    { NoneVal,
      <<"B", "e", "a", "r", "e", "r", " ", "t", "9">>,
      <<"B", "a", "s", "i", "c", " ", "t", "1">>,
      <<"t", "2">> }

\* The user behind a header that is not rejected.
CallerOf(authorization) == IF authorization = BearerT1 THEN "u1" ELSE "u2"

\* C1: every project, pitch, stage and debug route answers 401 to a request
\* whose Authorization header is missing, is not of the bearer scheme or
\* carries a rejected token, and then reads and writes no document, calls no
\* model and probes nothing; a request with a verified token is never
\* answered 401; only the two health routes answer without a token.
C1_GatedByGetUid ==
    [][ /\ (last'.route \in GatedRoutes /\ last'.authorization \in RejectedHeaders)
             => /\ last'.status = 401
                /\ last'.io = NoIO
                /\ UNCHANGED <<projects, stages, stage_field, uuid_ctr>>
        /\ (last'.route \in GatedRoutes /\ last'.authorization \notin RejectedHeaders)
             => last'.status # 401
        /\ (last'.route \in OpenRoutes) => last'.status = 200
        /\ (last'.route # "none" /\ last'.authorization = NoneVal
              /\ last'.status # 401)
             => last'.route \in OpenRoutes
      ]_vars

\* A bearer-less request for candidates is turned away while the caller's
\* own project sits in the store.
C1_Witness ==
    /\ last.route = "stage_generate"
    /\ last.status = 401
    /\ last.authorization = <<"B", "a", "s", "i", "c", " ", "t", "1">>
    /\ \E id \in DOMAIN projects : projects[id].owner_uid = "u1"

\* C2: a project is stored with the uid of the caller that created it as
\* owner_uid and no later request changes a stored project; list_projects
\* returns, once each, exactly the stored projects whose owner_uid is the
\* caller's uid.
C2_OwnerKeyed ==
    [][ /\ \A id \in DOMAIN projects :
             id \in DOMAIN projects' /\ projects'[id] = projects[id]
        /\ (last'.route = "create_project" /\ last'.status = 201)
             => /\ last'.result.id \notin DOMAIN projects
                /\ DOMAIN projects' = DOMAIN projects \cup {last'.result.id}
                /\ projects'[last'.result.id].owner_uid
                     = CallerOf(last'.authorization)
        /\ (last'.route = "list_projects" /\ last'.status = 200)
             => LET res == last'.result
                    own == {id \in DOMAIN projects :
                              projects[id].owner_uid = CallerOf(last'.authorization)}
                IN /\ {res[i].id : i \in 1..Len(res)} = own
                   /\ Len(res) = Cardinality(own)
                   /\ \A i \in 1..Len(res) :
                        res[i].owner_uid = CallerOf(last'.authorization)
      ]_vars

\* A user lists their one project while another user's project is stored.
C2_Witness ==
    /\ last.route = "list_projects"
    /\ last.status = 200
    /\ Len(last.result) = 1
    /\ \E id \in DOMAIN projects :
         projects[id].owner_uid # CallerOf(last.authorization)

\* C3: stage_generate and stage_choose answer 404 for a project id that is
\* not stored and 403 for a stored project of another owner, and in both
\* cases write nothing and leave every stage document as it was; the owner
\* is never answered 403.
C3_OwnerOnly ==
    [][ (last'.route \in {"stage_generate", "stage_choose"} /\ last'.status # 401)
          => LET pid == last'.body.project_id
                 uid == CallerOf(last'.authorization)
             IN /\ (pid \notin DOMAIN projects)
                     => /\ last'.status = 404
                        /\ last'.io.writes = 0
                        /\ UNCHANGED <<stages, projects>>
                /\ (pid \in DOMAIN projects /\ projects[pid].owner_uid # uid)
                     => /\ last'.status = 403
                        /\ last'.io.writes = 0
                        /\ last'.io.llm = <<>>
                        /\ UNCHANGED <<stages, projects>>
                /\ (pid \in DOMAIN projects /\ projects[pid].owner_uid = uid)
                     => last'.status # 403
      ]_vars

\* A user who does not own the project is refused a choice on a stage that
\* its owner has generated candidates for.
C3_Witness ==
    /\ last.route = "stage_choose"
    /\ last.status = 403
    /\ <<last.body.project_id, "outline">> \in DOMAIN stages

\* C6: one stage_generate request issues at most three chat completion
\* calls, all with the same model, system message, user message and
\* temperature, and none when no client is configured.
C6_AtMostThreeIdenticalCalls ==
    last.route = "stage_generate"
      => /\ Len(last.io.llm) <= 3
         /\ \A i, j \in 1..Len(last.io.llm) : last.io.llm[i] = last.io.llm[j]
         /\ ~make_openai_client => last.io.llm = <<>>

\* Three calls were issued, one of which raised.
C6_Witness ==
    /\ last.route = "stage_generate"
    /\ last.status = 200
    /\ Len(last.io.llm) = 3
    /\ \E i \in 1..3 : last.body.script[i].kind = "raise"

\* An attempt that raised, or whose content is empty once trimmed.
AttemptFailed(reply) ==
    \/ reply.kind = "raise"
    \/ Strip(OrElse(reply.content, <<>>)) = <<>>

\* C9: with a client configured, stage_generate answers 502 exactly when
\* every one of its attempts raised or came back empty, and answers 200
\* with the candidates when at least one attempt gave non-empty content.
C9_BadGatewayIffAllFailed ==
    (last.route = "stage_generate" /\ last.status \in {200, 502}
       /\ make_openai_client)
      => (last.status = 502
            <=> \A i \in 1..Len(last.body.script) :
                  AttemptFailed(last.body.script[i]))

\* C8: an authenticated generate_pitch request is answered with the
\* template PitchPack of its trimmed title, logline, genre and tone whenever
\* no client is configured or the model's content is not JSON.
C8_FallbackNotError ==
    (last.route = "generate_pitch" /\ last.status # 401)
      => /\ ~make_openai_client
              => /\ last.status = 200
                 /\ last.result = FallbackPack(PitchFields(last.body))
         /\ (/\ make_openai_client
             /\ last.body.reply.kind = "content"
             /\ last.body.reply.content = <<"S", "o", "r", "r", "y">>)
              => /\ last.status = 200
                 /\ last.result = FallbackPack(PitchFields(last.body))

\* C10: stage_choose answers 400 when the stage document of the project
\* and stage does not exist, and 404 when it exists but no candidate of its
\* last_generated list has the chosen id; both leave every stage document,
\* a stored chosen record included, as it was, and write nothing.
C10_RejectionsLeaveStore ==
    [][ (/\ last'.route = "stage_choose"
         /\ last'.status \notin {401, 403}
         /\ last'.body.project_id \in DOMAIN projects)
          => LET key == <<last'.body.project_id, last'.body.stage>>
             IN /\ (key \notin DOMAIN stages)
                     => /\ last'.status = 400
                        /\ last'.io.writes = 0
                        /\ UNCHANGED stages
                /\ (/\ key \in DOMAIN stages
                    /\ \A i \in 1..Len(stages[key].last_generated) :
                         stages[key].last_generated[i].id # last'.body.chosen_id)
                     => /\ last'.status = 404
                        /\ last'.io.writes = 0
                        /\ UNCHANGED stages
                /\ last'.status = 400 => key \notin DOMAIN stages
      ]_vars

\* An unknown chosen_id is turned down on a stage that holds a chosen record.
C10_Witness ==
    /\ last.route = "stage_choose"
    /\ last.status = 404
    /\ last.result = "Chosen candidate not found"
    /\ <<last.body.project_id, last.body.stage>> \in DOMAIN stages
    /\ stages[<<last.body.project_id, last.body.stage>>].chosen # <<>>

\* C11: a successful stage_choose stores chosen = {id, text, meta} on the
\* stage document of the project and stage it names, with the chosen id,
\* the meta of the last_generated candidate of that id and, as text, the
\* trimmed edits when edits is non-empty and that candidate's text
\* otherwise; last_generated, engine, language and tweak of the document,
\* every other stage document and every project stay as they were.
C11_ChooseFrame ==
    [][ (last'.route = "stage_choose" /\ last'.status = 200)
          => LET b == last'.body
                 key == <<b.project_id, b.stage>>
             IN /\ key \in DOMAIN stages
                /\ \E i \in 1..Len(stages[key].last_generated) :
                     LET cand == stages[key].last_generated[i]
                     IN /\ cand.id = b.chosen_id
                        /\ stages'[key].chosen =
                             <<[id |-> b.chosen_id,
                                text |-> IF b.edits # <<>> THEN Strip(b.edits)
                                         ELSE cand.text,
                                meta |-> cand.meta]>>
                /\ stages'[key].last_generated = stages[key].last_generated
                /\ stages'[key].engine = stages[key].engine
                /\ stages'[key].language = stages[key].language
                /\ stages'[key].tweak = stages[key].tweak
                /\ DOMAIN stages' = DOMAIN stages
                /\ \A k \in DOMAIN stages \ {key} : stages'[k] = stages[k]
                /\ UNCHANGED <<projects, stage_field, uuid_ctr>>
      ]_vars

\* Edits replace the text of a chosen candidate while the other stage of the
\* same project holds candidates too.
C11_Witness ==
    /\ last.route = "stage_choose"
    /\ last.status = 200
    /\ last.body.edits = <<" ", "x", " ">>
    /\ stages[<<last.body.project_id, last.body.stage>>].chosen[1].text = <<"x">>
    /\ \E k \in DOMAIN stages :
         k[1] = last.body.project_id /\ k[2] # last.body.stage

---------------------------------------------------------------------------
(* Properties of backend/app_stages.py.                                    *)

\* outline -> onepager -> screenplay -> script -> dialogue -> final
LinearSuccessor(stage) ==
    CASE stage = "outline" -> "onepager"
      [] stage = "onepager" -> "screenplay"
      [] stage = "screenplay" -> "script"
      [] stage = "script" -> "dialogue"
      [] stage = "dialogue" -> "final"

StageRank(stage) ==
    CASE stage = "outline" -> 1
      [] stage = "onepager" -> 2
      [] stage = "screenplay" -> 3
      [] stage = "script" -> 4
      [] stage = "dialogue" -> 5
      [] stage = "final" -> 6

\* C4, as amended: the progression of choose_stage is a fixed map with five
\* entries, one for each stage a request may name; whatever the store
\* holds, a successful choose_stage answers with, and stores, the single
\* successor of the stage the request names.
C4_FiveEntryStaticMap ==
    [][ /\ DOMAIN next_stage_map = Stage
        /\ Cardinality(DOMAIN next_stage_map) = 5
        /\ (last'.route = "choose_stage" /\ last'.status = 200)
             => /\ last'.result.next = LinearSuccessor(last'.body.stage)
                /\ last'.body.project_id \in DOMAIN stage_field'
                /\ stage_field'[last'.body.project_id]
                     = LinearSuccessor(last'.body.stage)
      ]_vars

\* The fifth entry is used: a choice on the dialogue stage stores final.
C4_Witness ==
    /\ last.route = "choose_stage"
    /\ last.status = 200
    /\ last.body.stage = "dialogue"
    /\ stage_field[last.body.project_id] = "final"

\* C4, as stated: the progression is a map with four entries, and a
\* successful choose_stage answers with the successor of the stage named.
C4_FourEntryStaticMap ==
    /\ Cardinality(DOMAIN next_stage_map) = 4
    /\ (last.route = "choose_stage" /\ last.status = 200)
         => last.result.next = LinearSuccessor(last.body.stage)

\* C5: the stored stage of a project never moves backward in the order
\* outline, onepager, screenplay, script, dialogue, final, and stays final
\* once it is final.
C5_NeverBackward ==
    [][ \A id \in DOMAIN stage_field :
          /\ id \in DOMAIN stage_field'
          /\ StageRank(stage_field'[id]) >= StageRank(stage_field[id])
          /\ stage_field[id] = "final" => stage_field'[id] = "final"
      ]_vars

---------------------------------------------------------------------------
(* Properties of manthan_v0_2_1/backend/app/main.py.                       *)

Given(v) == v # NoneVal /\ v # <<>>

\* The points of the six checks for a request and the pack it is answered
\* with.
CheckPoints(idea, result) ==
    << IF Len(idea.title) >= 3 THEN 20 ELSE 0,
       IF WordCount(idea.logline) >= 10 THEN 25 ELSE 0,
       IF Given(idea.genre) THEN 15 ELSE 0,
       IF Given(idea.tone) THEN 10 ELSE 0,
       IF Len(result.outline) >= 3 THEN 15 ELSE 0,
       IF WordCount(result.one_pager) >= 60 THEN 15 ELSE 0 >>

\* C7, as amended: the score of quality_gate is the sum of the fixed weights
\* 20, 25, 15, 10, 15, 15 of those of its six checks that pass (title of at
\* least 3 characters, logline of at least 10 words, genre given, tone
\* given, outline of at least 3 entries, one-pager of at least 60 words),
\* with one reason for each check that fails.
C7_SixWeightedChecks ==
    (last.route = "generate_pitch_v021" /\ last.status = 200)
      => LET pts == CheckPoints(last.body.idea, last.result)
             q == last.result.quality
         IN /\ q.score = pts[1] + pts[2] + pts[3] + pts[4] + pts[5] + pts[6]
            /\ Len(q.reasons) = Cardinality({i \in 1..6 : pts[i] = 0})
            /\ q.label = IF q.score >= 80 THEN "Strong"
                         ELSE IF q.score >= 60 THEN "Decent" ELSE "Needs work"

\* All six checks pass on a pack the model wrote.
C7_Witness ==
    /\ last.route = "generate_pitch_v021"
    /\ last.status = 200
    /\ last.body.reply.kind = "content"
    /\ Len(last.result.outline) = 3
    /\ last.result.quality.score = 100

\* C7, as stated: the checklist has exactly five checks, so at most five
\* of them fail.
C7_FiveChecks ==
    (last.route = "generate_pitch_v021" /\ last.status = 200)
      => Len(last.result.quality.reasons) <= 5

\* The model's content is no JSON document.
Unparseable(reply) ==
    /\ reply.kind = "content"
    /\ \/ reply.content = NoneVal
       \/ reply.content = <<"{", "t", "r", "u", "n", "c">>

\* The answer is made of the local outline, one-pager and deck.
LocalPack(idea, result) ==
    /\ result.outline = local_outline(idea.logline)
    /\ result.one_pager = local_one_pager(idea.title, idea.logline)
    /\ result.deck_outline = local_deck

\* C12: generate_pitch of main.py answers every request with a pack, whatever
\* the model and the store do: the local outline, one-pager and deck when
\* the model is disabled, has no key, raises or returns unparseable output;
\* at most 8 outline entries and at most 12 deck entries; and doc_id null
\* when autosave is disabled or raises.
C12_NeverFails ==
    last.route = "generate_pitch_v021"
      => /\ last.status = 200
         /\ (\/ ~env021.use_model
             \/ ~env021.has_key
             \/ last.body.reply.kind = "raise"
             \/ Unparseable(last.body.reply))
              => LocalPack(last.body.idea, last.result)
         /\ Len(last.result.outline) <= 8
         /\ Len(last.result.deck_outline) <= 12
         /\ last.body.save \in {"off", "raise"} => last.result.doc_id = 0

===========================================================================
